---- MODULE Spec2Model ----
(***************************************************************************)
(* 4o-agent: the FastAPI server of src/app.py (POST /run, GET /read), the  *)
(* AgentExecutor loop it configures, the process-wide conversation memory  *)
(* and the tools of src/agent/tools.py.                                    *)
(*                                                                         *)
(* A request slot holds one POST /run request from its arrival to its      *)
(* response; the server works on the slots concurrently.  Paths are        *)
(* sequences of segments; the filesystem maps each regular file to what it *)
(* holds, next to a table of symbolic links.                               *)
(***************************************************************************)
EXTENDS Naturals, Sequences, FiniteSets

VARIABLES
    memory,         \* ConversationBufferMemory: the stored messages, oldest first
    fs,             \* the regular files: canonical absolute path -> what the file holds
    phase,          \* per slot: "Idle" | "Deciding" | "Invoking" | "Finished" |
                    \*           "Saved" | "Responded"
    task,           \* per slot: the task string of the request
    chat_history,   \* per slot: the messages handed to the agent as chat_history
    iterations,     \* per slot: AgentExecutor's iteration counter
    llm_calls,      \* per slot: calls of the agent's plan (the Decision Function)
    calls,          \* per slot: the tool calls of the current plan, with their state
    tool_decisions, \* per slot: tool calls the Decision Function has named
    output,         \* per slot: the output the executor's loop ended with
    steps,          \* per slot: tool observations appended to intermediate_steps
    parse_steps,    \* per slot: parse-error observations appended to intermediate_steps
    response,       \* per slot: the HTTP response of POST /run
    read_response   \* the HTTP response of the last GET /read

vars == <<memory, fs, phase, task, chat_history, iterations, llm_calls, calls,
          tool_decisions, output, steps, parse_steps, response, read_response>>

(***************************************************************************)
(* Program constants.                                                      *)
(***************************************************************************)
max_iterations == 20

HistoryWindow == 20

(***************************************************************************)
(* Bounds of the model.                                                    *)
(***************************************************************************)
\* Spec accepts a task only while the messages stored, plus two for every
\* request under way, are fewer than this; in both specifications a run
\* goes beyond the overlap bound only while fewer messages are stored.
MaxTurns == 3

\* The same for SessionSpec.
MaxSessionTurns == 23

\* A run is given at most this many unparsable model outputs.
MaxParseErrors == 4

\* The same for SessionSpec.
MaxSessionParseErrors == 1

\* A run is given at most this many plans that name several tool calls.
MaxParallelPlans == 1

\* The Decision Function varies a run's first plans, this many: it draws
\* them from all the tool calls of the specification, or from RepeatCalls
\* while another request is under way; later plans repeat one call.
MaxVariedPlans == 1

\* Requests overlap during their first iterations, this many: a run goes
\* beyond them only while it is the only request under way, and a task is
\* accepted only while no run is beyond them.
MaxOverlapIterations == 1

\* The requests the server works on at one time.
Slots == {"s1", "s2"}

(***************************************************************************)
(* Paths and the filesystem.                                               *)
(***************************************************************************)
NoPath == <<>>

ReadRoot == <<"app">>

DataRoot == <<"data">>

NotesFile == <<"data", "notes.md">>

\* The file the converters write; it holds the text of an earlier conversion.
OutFile == <<"data", "out.txt">>

\* A file outside both roots, in whatever format the tool that reads it expects.
SecretFile == <<"etc", "passwd">>

ReadmeFile == <<"app", "README.md">>

\* A file that does not exist at first, outside both roots.
CreatedFile == <<"etc", "created">>

LinkPath == <<"data", "link">>

InitFiles == {NotesFile, OutFile, SecretFile, ReadmeFile}

\* The symbolic links of the filesystem: link path -> target.
Symlinks == [p \in {LinkPath} |-> SecretFile]

IsPrefix(p, q) == Len(p) <= Len(q) /\ SubSeq(q, 1, Len(p)) = p

Parent(p) == IF p = <<>> THEN <<>> ELSE SubSeq(p, 1, Len(p) - 1)

FollowLink(p) == IF p \in DOMAIN Symlinks THEN Symlinks[p] ELSE p

\* pathlib.Path.resolve() and the kernel's path walk: "." and empty segments
\* vanish, ".." steps to the parent (the root is its own parent), a
\* symbolic link is replaced by its target.
RECURSIVE ResolveFrom(_, _)
ResolveFrom(base, segs) ==
    IF segs = <<>> THEN base
    ELSE LET s == Head(segs)
             next == IF s = ".." THEN Parent(base)
                     ELSE IF s = "." \/ s = "" THEN base
                     ELSE FollowLink(Append(base, s))
         IN ResolveFrom(next, Tail(segs))

Resolve(p) == ResolveFrom(<<>>, p)

Inside(root, p) == IsPrefix(root, Resolve(p))

IsFile(files, p) == Resolve(p) \in DOMAIN files

IsDir(files, p) == \E f \in DOMAIN files : IsPrefix(Resolve(p), f) /\ Resolve(p) # f

\* A component of the path that is a regular file where a directory is needed.
ThroughFile(files, p) ==
    \E f \in DOMAIN files : IsPrefix(f, Resolve(p)) /\ Resolve(p) # f

\* What a regular file holds:
\*   "data"      what a file of the initial filesystem holds, in the format
\*               the tool that reads it expects (an SQLite database with
\*               table t, a CSV with rows, markdown, an image with text);
\*   "empty"     nothing, zero bytes;
\*   "byte"      one byte of text;
\*   "text"      longer text that is no database and no image;
\*   "database"  an SQLite database without tables;
\*   "tables"    an SQLite database with table t, and nothing but a database.
HasData(files, p) == IsFile(files, p) /\ files[Resolve(p)] = "data"

\* SQLite takes a file of at most one byte for a database with nothing in it.
IsBlank(files, p) == IsFile(files, p) /\ files[Resolve(p)] \in {"empty", "byte"}

\* SQLite finds table t in the file.
HasTable(files, p) == IsFile(files, p) /\ files[Resolve(p)] \in {"data", "tables"}

\* SQLite cannot read the file as a database.
NotADatabase(files, p) == IsFile(files, p) /\ files[Resolve(p)] = "text"

\* The bytes of the file are text that open(p).read() decodes.
IsText(files, p) == IsFile(files, p) /\ files[Resolve(p)] # "tables"

\* The database VACUUM INTO writes from a database that holds `content`.
VacuumCopy(content) == IF content \in {"data", "tables"} THEN "tables" ELSE "database"

\* What a converter writes from a source that holds `content`: nothing from
\* nothing, text from anything else.
Converted(content) == IF content = "empty" THEN "empty" ELSE "text"

\* open(p, "w") and the like: the file at p is created or replaced; a
\* missing directory is not created.
CanWrite(files, p) ==
    \/ IsFile(files, p)
    \/ ~IsDir(files, p) /\ ~ThroughFile(files, p) /\ IsDir(files, Parent(Resolve(p)))

Put(files, p, content) ==
    [q \in DOMAIN files \cup {Resolve(p)} |->
        IF q = Resolve(p) THEN content ELSE files[q]]

Remove(files, p) == [q \in DOMAIN files \ {Resolve(p)} |-> files[q]]

(***************************************************************************)
(* Tools (src/agent/tools.py).  A tool applied to its arguments in a       *)
(* filesystem gives an outcome: it returns a value, raises an exception or *)
(* never ends; `src` is the file whose content the returned value carries  *)
(* (NoPath when it carries none); `files` is the filesystem it leaves.     *)
(***************************************************************************)
Returns(text, src, files) ==
    [kind |-> "return", text |-> text, src |-> src, files |-> files]

Raises(text, files) ==
    [kind |-> "raise", text |-> text, src |-> NoPath, files |-> files]

Hangs(files) ==
    [kind |-> "hang", text |-> "", src |-> NoPath, files |-> files]

\* The shell commands of the model and what /bin/sh does with each:
\* exit status, the file whose content goes to stdout, the files left,
\* and whether the process ends at all.
ShellCommands ==
    {"echo ok", "false", "rm /data/notes.md", "cat /etc/passwd", "sleep infinity"}

Shell(command, files) ==
    CASE command = "echo ok" ->
           [ends |-> TRUE, returncode |-> 0, stdout |-> NoPath, files |-> files]
      [] command = "false" ->
           [ends |-> TRUE, returncode |-> 1, stdout |-> NoPath, files |-> files]
      [] command = "rm /data/notes.md" ->
           IF IsFile(files, NotesFile)
           THEN [ends |-> TRUE, returncode |-> 0, stdout |-> NoPath,
                 files |-> Remove(files, NotesFile)]
           ELSE [ends |-> TRUE, returncode |-> 1, stdout |-> NoPath, files |-> files]
      [] command = "cat /etc/passwd" ->
           IF IsFile(files, SecretFile)
           THEN [ends |-> TRUE, returncode |-> 0, stdout |-> SecretFile, files |-> files]
           ELSE [ends |-> TRUE, returncode |-> 1, stdout |-> NoPath, files |-> files]
      [] OTHER ->
           [ends |-> FALSE, returncode |-> 0, stdout |-> NoPath, files |-> files]

\* subprocess.run(command, shell=True, check=True) with no timeout: the
\* call waits for the process; a non-zero exit is caught and reported.
run_shell_command(command, files) ==
    LET p == Shell(command, files)
    IN IF ~p.ends THEN Hangs(p.files)
       ELSE IF p.returncode = 0 THEN Returns("stdout", p.stdout, p.files)
       ELSE Returns("Error (returncode)", NoPath, p.files)

\* `uv pip install`: the modes of the model are a package that installs,
\* one uv rejects, and one whose installation outlasts the 300 s timeout.
\* CalledProcessError and FileNotFoundError are caught; TimeoutExpired is not.
install_uv_package(package_name, files) ==
    CASE package_name = "installs" -> Returns("Success", NoPath, files)
      [] package_name = "rejected" -> Returns("UV Error (returncode)", NoPath, files)
      [] OTHER -> Raises("TimeoutExpired", files)

\* The Python code of the model and what the interpreter does with each:
\* whether it ends, the file whose content it prints, the files it leaves.
\* An exception of the code (removing a file that is not there) ends it.
PythonCodes ==
    {"print('ok')",
     "import os; os.remove('/data/notes.md')",
     "print(open('/etc/passwd').read())",
     "open('/etc/created', 'w').write('x')",
     "while True: pass"}

Python(code, files) ==
    CASE code = "print('ok')" ->
           [ends |-> TRUE, stdout |-> NoPath, files |-> files]
      [] code = "import os; os.remove('/data/notes.md')" ->
           IF IsFile(files, NotesFile)
           THEN [ends |-> TRUE, stdout |-> NoPath, files |-> Remove(files, NotesFile)]
           ELSE [ends |-> TRUE, stdout |-> NoPath, files |-> files]
      [] code = "print(open('/etc/passwd').read())" ->
           IF IsText(files, SecretFile)
           THEN [ends |-> TRUE, stdout |-> SecretFile, files |-> files]
           ELSE [ends |-> TRUE, stdout |-> NoPath, files |-> files]
      [] code = "open('/etc/created', 'w').write('x')" ->
           IF CanWrite(files, CreatedFile)
           THEN [ends |-> TRUE, stdout |-> NoPath, files |-> Put(files, CreatedFile, "byte")]
           ELSE [ends |-> TRUE, stdout |-> NoPath, files |-> files]
      [] OTHER ->
           [ends |-> FALSE, stdout |-> NoPath, files |-> files]

\* PythonREPL().run(code) with no timeout: the code is executed in the
\* server's process; whatever it prints, or the exception it raises, is
\* returned as text.
python_repl(code, files) ==
    LET p == Python(code, files)
    IN IF ~p.ends THEN Hangs(p.files) ELSE Returns("repl output", p.stdout, p.files)

\* subprocess.run(["python", file]) with no timeout and no check: stdout
\* and stderr of the script are returned, whatever its exit status.  The
\* script's file is written to the system's temporary directory and left
\* there; that directory is not among the files of the model.
run_python_file(code, files) ==
    LET p == Python(code, files)
    IN IF ~p.ends THEN Hangs(p.files) ELSE Returns("script output", p.stdout, p.files)

\* tabula.read_pdf returns a list of frames, list has no to_json: the
\* AttributeError, like any error of reading, is caught and returned as text.
scrape_pdf_tabula(file_path, files) == Returns("Error scraping PDF", NoPath, files)

\* Image.open raises on a missing file, on a directory and on a file that
\* holds no image; nothing is caught.
image_to_text(image_path, files) ==
    IF HasData(files, image_path) THEN Returns("text", Resolve(image_path), files)
    ELSE IF IsFile(files, image_path) THEN Raises("UnidentifiedImageError", files)
    ELSE IF IsDir(files, image_path) THEN Raises("IsADirectoryError", files)
    ELSE Raises("FileNotFoundError", files)

\* The queries of the model: one that reads a table, one that reads no
\* table, one SQLite cannot parse (any other string), and one that copies the
\* database to CreatedFile.
SqlQueries ==
    {"SELECT v FROM t", "SELECT 1 AS one", "SELEC", "VACUUM INTO '/etc/created'"}

\* sqlite3.connect creates the database file when its directory exists and
\* the file does not; everything is inside try/except Exception, an error
\* is returned as a dict.  A query that reads no table never looks into the
\* file.  VACUUM INTO opens its target (creating it) before it reads the
\* source, and writes the copy only to a target that was missing or blank:
\* a target that is a database gives "output file already exists", text on
\* either side "file is not a database", the source as its own target
\* "database is locked".  It returns no rows.
sql_executor(db_path, query, files) ==
    IF ~CanWrite(files, db_path) THEN Returns("error dict", NoPath, files)
    ELSE LET db == IF IsFile(files, db_path) THEN files ELSE Put(files, db_path, "empty")
         IN CASE query = "SELECT v FROM t" ->
                   IF HasTable(db, db_path)
                   THEN Returns("rows", Resolve(db_path), db)
                   ELSE Returns("error dict", NoPath, db)
              [] query = "SELECT 1 AS one" -> Returns("rows", NoPath, db)
              [] query = "VACUUM INTO '/etc/created'" ->
                   IF Resolve(db_path) = CreatedFile \/ ~CanWrite(db, CreatedFile)
                   THEN Returns("error dict", NoPath, db)
                   ELSE IF NotADatabase(db, db_path)
                   THEN Returns("error dict", NoPath,
                                IF IsFile(db, CreatedFile) THEN db
                                ELSE Put(db, CreatedFile, "empty"))
                   ELSE IF IsFile(db, CreatedFile) /\ ~IsBlank(db, CreatedFile)
                   THEN Returns("error dict", NoPath, db)
                   ELSE Returns("rows", NoPath,
                                Put(db, CreatedFile, VacuumCopy(db[Resolve(db_path)])))
              [] OTHER -> Returns("error dict", NoPath, db)

\* pd.read_csv raises on a missing file, on a directory, on an empty file
\* and on bytes that are no text, to_json on a missing directory; nothing is
\* caught.  A frame without rows is written as "[]".
csv_to_json(csv_path, json_path, files) ==
    IF IsDir(files, csv_path) THEN Raises("IsADirectoryError", files)
    ELSE IF ~IsFile(files, csv_path) THEN Raises("FileNotFoundError", files)
    ELSE IF files[Resolve(csv_path)] = "empty" THEN Raises("EmptyDataError", files)
    ELSE IF files[Resolve(csv_path)] \in {"database", "tables"}
    THEN Raises("UnicodeDecodeError", files)
    ELSE IF ~CanWrite(files, json_path) THEN Raises("OSError", files)
    ELSE Returns("Converted", NoPath, Put(files, json_path, "text"))

\* open(md_path) raises on a missing file and on a directory, read() on
\* bytes that are no text, open(html_path, "w") on a missing directory;
\* nothing is caught.  The HTML of an empty file is empty.
md_to_html(md_path, html_path, files) ==
    IF IsDir(files, md_path) THEN Raises("IsADirectoryError", files)
    ELSE IF ~IsFile(files, md_path) THEN Raises("FileNotFoundError", files)
    ELSE IF ~IsText(files, md_path) THEN Raises("UnicodeDecodeError", files)
    ELSE IF ~CanWrite(files, html_path) THEN Raises("FileNotFoundError", files)
    ELSE Returns("Converted", NoPath,
                 Put(files, html_path, Converted(files[Resolve(md_path)])))

\* The url modes of the model: a server that answers, a url that is not
\* http(s), and a host that cannot be reached.  In the last case
\* requests.request raises before `response` is bound, and the handler's own
\* f-string reads response.text: UnboundLocalError leaves the function.
make_api_call(url, files) ==
    CASE url = "https://ok" -> Returns("status_code, headers, data", NoPath, files)
      [] url = "ftp://x" -> Returns("error: Invalid URL protocol", NoPath, files)
      [] OTHER -> Raises("UnboundLocalError", files)

\* The argument names a call of scrape_website passes: "url" alone, or with
\* a field of ScrapeWebsiteInput that the function does not take (headless,
\* user_agent, tags_to_extract): the call itself raises TypeError.  With
\* arguments the function takes, its whole body is inside try/except.
scrape_website(fields, files) ==
    IF fields = "url" THEN Returns("status, data", NoPath, files)
    ELSE Raises("TypeError", files)

\* The whole body is inside try/except Exception.
duckduckgo_search(files) == Returns("results", NoPath, files)

(***************************************************************************)
(* The registry: the tools handed to the agent and the executor, and the   *)
(* executor's dispatch by name.                                            *)
(***************************************************************************)
tools ==
    {"run_shell_command", "python_repl", "run_python_file", "scrape_pdf_tabula",
     "image_to_text", "sql_executor", "csv_to_json", "md_to_html", "make_api_call",
     "scrape_website", "install_uv_package", "duckduckgo_search"}

\* A tool call of a plan: the tool's name and its arguments (`path` the
\* path read, `out` the path written, `arg` the command, code, query,
\* package, url or argument names).
Call(tool, path, out, arg) ==
    [tool |-> tool, path |-> path, out |-> out, arg |-> arg]

\* The registered tool of the call's name, applied to the call's arguments.
RunTool(c, files) ==
    CASE c.tool = "run_shell_command" -> run_shell_command(c.arg, files)
      [] c.tool = "install_uv_package" -> install_uv_package(c.arg, files)
      [] c.tool = "python_repl" -> python_repl(c.arg, files)
      [] c.tool = "run_python_file" -> run_python_file(c.arg, files)
      [] c.tool = "scrape_pdf_tabula" -> scrape_pdf_tabula(c.path, files)
      [] c.tool = "image_to_text" -> image_to_text(c.path, files)
      [] c.tool = "sql_executor" -> sql_executor(c.path, c.arg, files)
      [] c.tool = "csv_to_json" -> csv_to_json(c.path, c.out, files)
      [] c.tool = "md_to_html" -> md_to_html(c.path, c.out, files)
      [] c.tool = "make_api_call" -> make_api_call(c.arg, files)
      [] c.tool = "scrape_website" -> scrape_website(c.arg, files)
      [] OTHER -> duckduckgo_search(files)

\* A dispatch that looks the name up in the tool map without a fallback.
PerformAgentAction_KeyError(c, files) ==
    IF c.tool \notin tools THEN Raises("KeyError", files) ELSE RunTool(c, files)

\* AgentExecutor's dispatch: a registered name runs its tool, any other
\* name runs InvalidTool, which returns a message and runs nothing.
PerformAgentAction(c, files) ==
    IF c.tool \notin tools
    THEN Returns("is not a valid tool", NoPath, files)
    ELSE RunTool(c, files)

(***************************************************************************)
(* Inputs of the model: tasks, final answers, paths, tool calls, plans.    *)
(***************************************************************************)
Tasks == {"", "task"}

Finals == {"answer"}

\* Paths the Decision Function passes to tools: a file of the data
\* directory, a path whose directory does not exist, a path that leaves the
\* data directory by "..", and a symbolic link that points out of it.
PathArgs ==
    {NotesFile, <<"data", "missing", "f">>, <<"data", "..", "etc", "passwd">>, LinkPath}

PathTools == {"scrape_pdf_tabula", "image_to_text"}

ConvertTools == {"csv_to_json", "md_to_html"}

CodeTools == {"python_repl", "run_python_file"}

\* A name the registry does not hold (tools.py's own __main__ lists it).
UnknownTools == {"file_delete"}

ToolCalls ==
    {Call("run_shell_command", NoPath, NoPath, c) : c \in ShellCommands}
    \cup {Call(t, p, NoPath, "") : t \in PathTools, p \in PathArgs}
    \cup {Call("sql_executor", p, NoPath, "SELECT v FROM t") : p \in PathArgs}
    \cup {Call("sql_executor", NotesFile, NoPath, q) : q \in SqlQueries}
    \cup {Call(t, p, OutFile, "") : t \in ConvertTools, p \in PathArgs}
    \cup {Call(t, NoPath, NoPath, c) : t \in CodeTools, c \in PythonCodes}
    \cup {Call("scrape_website", NoPath, NoPath, a) : a \in {"url", "url, headless"}}
    \cup {Call("duckduckgo_search", NoPath, NoPath, "")}
    \cup {Call("install_uv_package", NoPath, NoPath, a) :
             a \in {"installs", "rejected", "slow"}}
    \cup {Call("make_api_call", NoPath, NoPath, a) :
             a \in {"https://ok", "ftp://x", "https://unreachable"}}
    \cup {Call(t, NotesFile, NoPath, "") : t \in UnknownTools}

\* The calls the Decision Function names while another request is under
\* way: one that changes the files, one that reads a file back, one that
\* raises.
RepeatCalls ==
    {Call("run_shell_command", NoPath, NoPath, "rm /data/notes.md"),
     Call("sql_executor", NotesFile, NoPath, "SELECT v FROM t"),
     Call("image_to_text", <<"data", "missing", "f">>, NoPath, "")}

\* Calls a model response names together with others (parallel tool calls).
ParallelCalls ==
    {Call("run_shell_command", NoPath, NoPath, "echo ok"),
     Call("image_to_text", <<"data", "missing", "f">>, NoPath, "")}

SinglePlans == {<<c>> : c \in ToolCalls}

RepeatPlans == {<<c>> : c \in RepeatCalls}

\* The plan of a run whose varied plans are used up.
TailPlans == {<<Call("run_shell_command", NoPath, NoPath, "echo ok")>>}

ParallelPlans == {<<c, d>> : c \in ParallelCalls, d \in ParallelCalls}

(***************************************************************************)
(* Messages, memory and responses.                                         *)
(***************************************************************************)
HumanMessage(content) == [type |-> "human", content |-> content]

AIMessage(content) == [type |-> "ai", content |-> content]

\* memory.buffer[-20:]
Window(buffer) ==
    IF Len(buffer) <= HistoryWindow THEN buffer
    ELSE SubSeq(buffer, Len(buffer) - HistoryWindow + 1, Len(buffer))

\* ConversationBufferMemory.load_memory_variables: the whole buffer under
\* memory_key "chat_history".
LoadMemoryVariables(buffer) == buffer

\* Chain.prep_inputs of an executor built with memory=memory: the memory's
\* variables are merged over the caller's inputs, so its chat_history
\* replaces the one the caller passed.
PrepInputs(passed, buffer) == LoadMemoryVariables(buffer)

\* A buffer that drops its oldest message when it saves.
SaveContext_DropOldest(buffer, input, output_text) ==
    (IF buffer = <<>> THEN <<>> ELSE Tail(buffer))
        \o <<[type |-> "human", content |-> input],
             [type |-> "ai", content |-> output_text]>>

\* ConversationBufferMemory.save_context with input_key "input" and
\* output_key "output".
SaveContext(buffer, input, output_text) ==
    buffer \o <<HumanMessage(input), AIMessage(output_text)>>

\* AgentExecutor.return_stopped_response, early_stopping_method "force".
StoppedOutput == "Agent stopped due to max iterations."

NoResponse == [status |-> 0, body |-> ""]

HTTPException(status_code, detail) == [status |-> status_code, body |-> detail]

PlainTextResponse(content) == [status |-> 200, body |-> content]

\* No GET /read has been answered.
NoRead == [status |-> 0, body |-> NoPath, path |-> NoPath]

NoResult == [kind |-> "none", text |-> "", src |-> NoPath]

ResultOf(o) == [kind |-> o.kind, text |-> o.text, src |-> o.src]

\* A run_task without its check of the task.
IsEmptyTask_NoCheck(t) == FALSE

\* run_task: `if not task`.
IsEmptyTask(t) == t = ""

\* A loop condition that lets one more iteration through.
ShouldContinue_OffByOne(n) == n <= max_iterations

\* AgentExecutor._should_continue with max_iterations=20 and no
\* max_execution_time.
ShouldContinue(n) == n < max_iterations

(***************************************************************************)
(* The bounds a specification puts on the requests and on the Decision     *)
(* Function: `turns` on the tasks accepted, `calls` the tool calls of the  *)
(* varied plans, `varied`, `parse`, `parallel`, `overlap` and `deep` as    *)
(* explained at the bounds, `reads` the paths of GET /read that are asked  *)
(* for while a request is under way.                                       *)
(***************************************************************************)
\* A request path: whether the string starts with "/", and its segments.
ReadPaths ==
    {[abs |-> TRUE, segs |-> <<"README.md">>],
     [abs |-> FALSE, segs |-> <<"README.md">>],
     [abs |-> TRUE, segs |-> <<"nothing.txt">>],
     [abs |-> FALSE, segs |-> <<"..", "etc", "passwd">>],
     [abs |-> TRUE, segs |-> <<"..", "data", "link">>],
     [abs |-> TRUE, segs |-> <<"README.md", "x">>],
     [abs |-> FALSE, segs |-> <<>>]}

\* The request path of a file that tool calls remove and create.
NotesReadPaths == {[abs |-> TRUE, segs |-> <<"..", "data", "notes.md">>]}

SpecBounds ==
    [turns |-> MaxTurns, calls |-> ToolCalls, varied |-> MaxVariedPlans,
     parse |-> MaxParseErrors, parallel |-> MaxParallelPlans,
     overlap |-> MaxOverlapIterations, deep |-> MaxTurns, reads |-> NotesReadPaths]

SessionBounds ==
    [turns |-> MaxSessionTurns, calls |-> RepeatCalls, varied |-> MaxVariedPlans,
     parse |-> MaxSessionParseErrors, parallel |-> 0,
     overlap |-> MaxOverlapIterations, deep |-> MaxTurns, reads |-> {}]

(***************************************************************************)
(* The state after the module is loaded: empty memory, no request.         *)
(***************************************************************************)
Init ==
    /\ memory = <<>>
    /\ fs = [p \in InitFiles |-> IF p = OutFile THEN "text" ELSE "data"]
    /\ phase = [r \in Slots |-> "Idle"]
    /\ task = [r \in Slots |-> ""]
    /\ chat_history = [r \in Slots |-> <<>>]
    /\ iterations = [r \in Slots |-> 0]
    /\ llm_calls = [r \in Slots |-> 0]
    /\ calls = [r \in Slots |-> <<>>]
    /\ tool_decisions = [r \in Slots |-> 0]
    /\ output = [r \in Slots |-> ""]
    /\ steps = [r \in Slots |-> 0]
    /\ parse_steps = [r \in Slots |-> 0]
    /\ response = [r \in Slots |-> NoResponse]
    /\ read_response = NoRead

(***************************************************************************)
(* A response leaves the server before the server takes its next step: the *)
(* request of a slot that has answered is over, and what the slot keeps of *)
(* it bears on no other request.                                           *)
(***************************************************************************)
\* No response is waiting to be sent.
Quiet == read_response = NoRead /\ \A r \in Slots : phase[r] # "Responded"

(***************************************************************************)
(* POST /run (run_task) and the AgentExecutor loop behind executor.ainvoke.*)
(***************************************************************************)
\* The executor's loop of the request is under way.
Running(r) == phase[r] \in {"Deciding", "Invoking"}

\* The request has arrived and is not answered yet.
Pending(r) == phase[r] \in {"Deciding", "Invoking", "Finished", "Saved"}

\* The loop ends with `text` as the run's output.
Finish(r, text) ==
    /\ output' = [output EXCEPT ![r] = text]
    /\ phase' = [phase EXCEPT ![r] = "Finished"]

\* Chain.aprep_outputs: the run's input and output are saved to the memory,
\* inside executor.ainvoke, before run_task is resumed.
SaveOutput(r) ==
    /\ Quiet
    /\ phase[r] = "Finished"
    /\ memory' = SaveContext(memory, task[r], output[r])
    /\ phase' = [phase EXCEPT ![r] = "Saved"]
    /\ UNCHANGED <<fs, task, chat_history, iterations, llm_calls, calls, tool_decisions,
                   output, steps, parse_steps, response, read_response>>

\* run_task is resumed with the result and answers 200 with its output.
ReturnOutput(r) ==
    /\ Quiet
    /\ phase[r] = "Saved"
    /\ response' = [response EXCEPT ![r] = PlainTextResponse(output[r])]
    /\ phase' = [phase EXCEPT ![r] = "Responded"]
    /\ UNCHANGED <<memory, fs, task, chat_history, iterations, llm_calls, calls,
                   tool_decisions, output, steps, parse_steps, read_response>>

\* An except clause that also saves the failed run to the memory.
RaiseOut_Saves(r, message) ==
    /\ memory' = SaveContext(memory, task[r], message)
    /\ response' = [response EXCEPT ![r] = HTTPException(500, message)]
    /\ phase' = [phase EXCEPT ![r] = "Responded"]

\* An exception leaves executor.ainvoke: run_task's except clause answers 500
\* with str(e); nothing is saved to the memory.
RaiseOut(r, message) ==
    /\ memory' = memory
    /\ response' = [response EXCEPT ![r] = HTTPException(500, message)]
    /\ phase' = [phase EXCEPT ![r] = "Responded"]

\* The iterations the request has completed or is committed to.
Committed(q) == iterations[q] + (IF phase[q] = "Invoking" THEN 1 ELSE 0)

\* A request arrives with task t.
Submit(r, t, b) ==
    /\ Quiet
    /\ phase[r] = "Idle"
    /\ ~IsEmptyTask(t) =>
          /\ Len(memory) + 2 * Cardinality({q \in Slots : Pending(q)}) < b.turns
          /\ \A q \in Slots : Pending(q) => Committed(q) <= b.overlap
    /\ task' = [task EXCEPT ![r] = t]
    /\ iterations' = [iterations EXCEPT ![r] = 0]
    /\ llm_calls' = [llm_calls EXCEPT ![r] = 0]
    /\ calls' = [calls EXCEPT ![r] = <<>>]
    /\ tool_decisions' = [tool_decisions EXCEPT ![r] = 0]
    /\ output' = [output EXCEPT ![r] = ""]
    /\ steps' = [steps EXCEPT ![r] = 0]
    /\ parse_steps' = [parse_steps EXCEPT ![r] = 0]
    /\ IF IsEmptyTask(t)
       THEN /\ response' = [response EXCEPT ![r] = HTTPException(400, "No task provided.")]
            /\ phase' = [phase EXCEPT ![r] = "Responded"]
            /\ chat_history' = [chat_history EXCEPT ![r] = <<>>]
       ELSE /\ response' = [response EXCEPT ![r] = NoResponse]
            /\ phase' = [phase EXCEPT ![r] = "Deciding"]
            /\ chat_history' =
                  [chat_history EXCEPT ![r] = PrepInputs(Window(memory), memory)]
    /\ UNCHANGED <<memory, fs, read_response>>

\* The loop's condition holds and the agent is asked for its next step.
CanPlan(r) == phase[r] = "Deciding" /\ ShouldContinue(iterations[r])

\* The agent returns AgentFinish.
DecideFinal(r, text) ==
    /\ Quiet
    /\ CanPlan(r)
    /\ llm_calls' = [llm_calls EXCEPT ![r] = @ + 1]
    /\ Finish(r, text)
    /\ UNCHANGED <<memory, fs, task, chat_history, iterations, calls, tool_decisions,
                   steps, parse_steps, response, read_response>>

\* Tool calls of the plan beyond one per iteration, so far in the run.
ExtraCalls(r) == (tool_decisions[r] + parse_steps[r]) - iterations[r]

\* No other request is under way.
Alone(r) == \A q \in Slots \ {r} : ~Pending(q)

\* The bound on overlapping requests lets the run have one more iteration.
MayAdvance(r, b) ==
    \/ iterations[r] < b.overlap
    \/ Alone(r) /\ Len(memory) < b.deep

\* The plans the Decision Function chooses from.
PlansFor(r, b) ==
    (IF tool_decisions[r] >= b.varied THEN TailPlans
     ELSE IF Alone(r) THEN {<<c>> : c \in b.calls}
     ELSE RepeatPlans)
    \cup (IF Alone(r) /\ tool_decisions[r] <= b.varied /\ ExtraCalls(r) < b.parallel
          THEN ParallelPlans ELSE {})

\* The agent returns a list of AgentActions: asyncio.gather starts every
\* one of them (each tool's function runs in a worker thread).
DecidePlan(r, plan, b) ==
    /\ Quiet
    /\ CanPlan(r)
    /\ MayAdvance(r, b)
    /\ plan \in PlansFor(r, b)
    /\ llm_calls' = [llm_calls EXCEPT ![r] = @ + 1]
    /\ tool_decisions' = [tool_decisions EXCEPT ![r] = @ + Len(plan)]
    /\ calls' = [calls EXCEPT ![r] =
                   [i \in 1..Len(plan) |->
                      [call |-> plan[i], plan |-> llm_calls[r] + 1, st |-> "running",
                       result |-> NoResult]]]
    /\ phase' = [phase EXCEPT ![r] = "Invoking"]
    /\ UNCHANGED <<memory, fs, task, chat_history, iterations, output, steps,
                   parse_steps, response, read_response>>

\* The model's output cannot be parsed (OutputParserException) and
\* handle_parsing_errors=True: the error text is recorded as the
\* observation of an "_Exception" step and the loop goes on.
DecideParseError(r, b) ==
    /\ Quiet
    /\ CanPlan(r)
    /\ MayAdvance(r, b)
    /\ parse_steps[r] < b.parse
    /\ llm_calls' = [llm_calls EXCEPT ![r] = @ + 1]
    /\ parse_steps' = [parse_steps EXCEPT ![r] = @ + 1]
    /\ iterations' = [iterations EXCEPT ![r] = @ + 1]
    /\ UNCHANGED <<memory, fs, phase, task, chat_history, calls, tool_decisions, output,
                   steps, response, read_response>>

\* The call of the model itself raises (endpoint unreachable, bad token).
DecideRaise(r) ==
    /\ Quiet
    /\ CanPlan(r)
    /\ llm_calls' = [llm_calls EXCEPT ![r] = @ + 1]
    /\ RaiseOut(r, "llm error")
    /\ UNCHANGED <<fs, task, chat_history, iterations, calls, tool_decisions, output,
                   steps, parse_steps, read_response>>

\* The loop's condition fails: the stopped response is the run's output.
Stop(r) ==
    /\ Quiet
    /\ phase[r] = "Deciding"
    /\ ~ShouldContinue(iterations[r])
    /\ Finish(r, StoppedOutput)
    /\ UNCHANGED <<memory, fs, task, chat_history, iterations, llm_calls, calls,
                   tool_decisions, steps, parse_steps, response, read_response>>

\* Tool call i of the plan returns.
CallReturn(r, i) ==
    /\ Quiet
    /\ phase[r] = "Invoking"
    /\ i \in DOMAIN calls[r]
    /\ calls[r][i].st = "running"
    /\ LET o == PerformAgentAction(calls[r][i].call, fs)
       IN /\ o.kind = "return"
          /\ calls' = [calls EXCEPT ![r][i].st = "done", ![r][i].result = ResultOf(o)]
          /\ fs' = o.files
    /\ UNCHANGED <<memory, phase, task, chat_history, iterations, llm_calls,
                   tool_decisions, output, steps, parse_steps, response, read_response>>

\* Tool call i of the plan raises: nothing between the tool and run_task
\* catches it.
CallRaise(r, i) ==
    /\ Quiet
    /\ phase[r] = "Invoking"
    /\ i \in DOMAIN calls[r]
    /\ calls[r][i].st = "running"
    /\ LET o == PerformAgentAction(calls[r][i].call, fs)
       IN /\ o.kind = "raise"
          /\ calls' = [calls EXCEPT ![r][i].st = "raised", ![r][i].result = ResultOf(o)]
          /\ fs' = o.files
          /\ RaiseOut(r, o.text)
    /\ UNCHANGED <<task, chat_history, iterations, llm_calls, tool_decisions, output,
                   steps, parse_steps, read_response>>

\* Every call of the plan has returned: the (action, observation) steps are
\* appended to intermediate_steps and the iteration is counted.
Record(r) ==
    /\ Quiet
    /\ phase[r] = "Invoking"
    /\ \A i \in DOMAIN calls[r] : calls[r][i].st = "done"
    /\ steps' = [steps EXCEPT ![r] = @ + Len(calls[r])]
    /\ iterations' = [iterations EXCEPT ![r] = @ + 1]
    /\ calls' = [calls EXCEPT ![r] = <<>>]
    /\ phase' = [phase EXCEPT ![r] = "Deciding"]
    /\ UNCHANGED <<memory, fs, task, chat_history, llm_calls, tool_decisions, output,
                   parse_steps, response, read_response>>

(***************************************************************************)
(* GET /read (read_file).                                                  *)
(***************************************************************************)
\* "/" is put before a path that does not start with it, then "/app".
ReadTarget(path) ==
    LET slashed == IF ~path.abs THEN [abs |-> TRUE, segs |-> path.segs] ELSE path
    IN <<"app">> \o slashed.segs

\* open(Path(path).resolve(), "r"): a missing file is FileNotFoundError
\* (404); a directory, a file used as a directory and bytes that are no
\* text are other exceptions (500).
read_file(path, files) ==
    LET target == ReadTarget(path)
    IN IF IsText(files, target)
       THEN [status |-> 200, body |-> Resolve(target), path |-> target]
       ELSE IF IsFile(files, target) \/ IsDir(files, target) \/ ThroughFile(files, target)
       THEN [status |-> 500, body |-> NoPath, path |-> target]
       ELSE [status |-> 404, body |-> NoPath, path |-> target]

\* The client asks for the path now: any path between its tasks, a path of
\* b.reads at any time.
MayRead(path, b) == path \in b.reads \/ \A r \in Slots : phase[r] = "Idle"

ReadFile(path, b) ==
    /\ Quiet
    /\ MayRead(path, b)
    /\ read_response' = read_file(path, fs)
    /\ UNCHANGED <<memory, fs, phase, task, chat_history, iterations, llm_calls, calls,
                   tool_decisions, output, steps, parse_steps, response>>

(***************************************************************************)
(* The responses leave the server.                                         *)
(***************************************************************************)
\* The responses are sent: the request of a slot that has answered is over
\* and nothing of it is kept; the memory and the files stay.
Deliver ==
    /\ ~Quiet
    /\ LET over == {r \in Slots : phase[r] = "Responded"}
           Reset(f, v) == [r \in Slots |-> IF r \in over THEN v ELSE f[r]]
       IN /\ phase' = Reset(phase, "Idle")
          /\ task' = Reset(task, "")
          /\ chat_history' = Reset(chat_history, <<>>)
          /\ iterations' = Reset(iterations, 0)
          /\ llm_calls' = Reset(llm_calls, 0)
          /\ calls' = Reset(calls, <<>>)
          /\ tool_decisions' = Reset(tool_decisions, 0)
          /\ output' = Reset(output, "")
          /\ steps' = Reset(steps, 0)
          /\ parse_steps' = Reset(parse_steps, 0)
          /\ response' = Reset(response, NoResponse)
    /\ read_response' = NoRead
    /\ UNCHANGED <<memory, fs>>

(***************************************************************************)
(* Specifications.  Both are the whole server: requests that overlap, the  *)
(* executor's loop with its tools, GET /read.  They differ in their        *)
(* bounds: Spec has every tool call of the model and a short memory,       *)
(* SessionSpec a long memory and few tool calls.                           *)
(***************************************************************************)
RunStep(r, b) ==
    \/ \E text \in Finals : DecideFinal(r, text)
    \/ \E plan \in SinglePlans \cup ParallelPlans : DecidePlan(r, plan, b)
    \/ DecideParseError(r, b)
    \/ DecideRaise(r)
    \/ Stop(r)
    \/ \E i \in 1..2 : CallReturn(r, i)
    \/ \E i \in 1..2 : CallRaise(r, i)
    \/ Record(r)
    \/ SaveOutput(r)
    \/ ReturnOutput(r)

Next ==
    \/ \E r \in Slots, t \in Tasks : Submit(r, t, SpecBounds)
    \/ \E r \in Slots : RunStep(r, SpecBounds)
    \/ \E path \in ReadPaths \cup NotesReadPaths : ReadFile(path, SpecBounds)
    \/ Deliver

Spec == Init /\ [][Next]_vars

SessionNext ==
    \/ \E r \in Slots, t \in Tasks : Submit(r, t, SessionBounds)
    \/ \E r \in Slots : RunStep(r, SessionBounds)
    \/ \E path \in ReadPaths \cup NotesReadPaths : ReadFile(path, SessionBounds)
    \/ Deliver

SessionSpec == Init /\ [][SessionNext]_vars

(***************************************************************************)
(* Claims.                                                                 *)
(***************************************************************************)
Done(r, i) == i \in DOMAIN calls[r] /\ calls[r][i].st = "done"

InFlight(r) == {i \in DOMAIN calls[r] : calls[r][i].st = "running"}

\* C1: every run ends: it asks the Decision Function at most max_iterations
\* times, and a run that has not answered yet can always take its next step.
C1_RunTerminates ==
    \A r \in Slots :
        Running(r) =>
            /\ llm_calls[r] <= max_iterations
            /\ Quiet => ENABLED RunStep(r, SpecBounds)

\* C2: a tool call whose path argument resolves outside the data directory
\* is rejected, and no returned value carries the content of a file outside it.
C2_OutsidePathsRejected ==
    \A r \in Slots : \A i \in DOMAIN calls[r] :
        Done(r, i) =>
            LET c == calls[r][i].call
                res == calls[r][i].result
            IN /\ (c.path # NoPath /\ ~Inside(DataRoot, c.path)) => res.text = "Rejected"
               /\ res.src # NoPath => IsPrefix(DataRoot, res.src)

\* C3: GET /read answers 200 with content only for a path that resolves
\* inside its root, 403 without content for a path that resolves outside,
\* and 404 for a path inside at which nothing exists (a path that runs
\* through a regular file is left aside).
C3_ReadOnlyInsideRoot ==
    read_response.status # 0 =>
        /\ read_response.status = 200 => Inside(ReadRoot, read_response.path)
        /\ ~Inside(ReadRoot, read_response.path) =>
               (read_response.status = 403 /\ read_response.body = NoPath)
        /\ (Inside(ReadRoot, read_response.path) /\ ~IsFile(fs, read_response.path)
              /\ ~IsDir(fs, read_response.path)
              /\ ~ThroughFile(fs, read_response.path)) => read_response.status = 404

\* C4: no invocation whose effect is the deletion of a file is ever
\* executed: every file that existed still exists.
C4_NothingDeleted == \A f \in InitFiles : f \in DOMAIN fs

\* C5: while a task runs, the conversation log it read as its chat history
\* is changed by no other task.
C5_ConversationOwnedByTask ==
    \A r \in Slots : Running(r) => memory = chat_history[r]

\* C6: when a run has answered, the observations recorded are as many as
\* the tool calls the Decision Function named.
C6_ObservationPerDecision ==
    \A r \in Slots : phase[r] = "Responded" => steps[r] = tool_decisions[r]

\* C7: no exception raised inside a tool reaches run_task: a run whose tool
\* call failed does not answer 500, the failure is a result of the call.
C7_NoToolExceptionEscapes ==
    \A r \in Slots : \A i \in DOMAIN calls[r] :
        /\ calls[r][i].st # "raised"
        /\ calls[r][i].result.kind = "raise" => response[r].status # 500

\* C8: POST /run answers 400 exactly for an empty task, before the Decision
\* Function or any tool is called; 500 with a message when the run raised;
\* otherwise 200 with the run's output, the one saved to the memory.
C8_RunTaskStatus ==
    \A r \in Slots :
        phase[r] = "Responded" =>
            /\ response[r].status \in {200, 400, 500}
            /\ response[r].status = 400 <=> task[r] = ""
            /\ response[r].status = 400 =>
                   (llm_calls[r] = 0 /\ tool_decisions[r] = 0 /\ calls[r] = <<>>)
            /\ response[r].status = 500 =>
                   (response[r].body # "" /\ llm_calls[r] > 0)
            /\ (\E i \in DOMAIN calls[r] : calls[r][i].st = "raised") =>
                   response[r].status = 500
            /\ response[r].status = 200 =>
                   /\ response[r].body \in Finals \cup {StoppedOutput}
                   /\ \E k \in DOMAIN memory :
                          memory[k] = AIMessage(response[r].body)

\* C8 witness: an empty task is answered 400 after an earlier run answered.
C8_Witness ==
    \E r \in Slots :
        /\ phase[r] = "Responded"
        /\ response[r].status = 400
        /\ memory # <<>>

\* C9: at no moment are two tool calls of one run in flight.
C9_OneCallInFlight == \A r \in Slots : Cardinality(InFlight(r)) <= 1

\* C10: the chat history handed to the Decision Function holds at most the
\* last HistoryWindow messages of the memory.
C10_HistoryWindowed ==
    \A r \in Slots : Running(r) => Len(chat_history[r]) <= HistoryWindow

Finished(r, i) == i \in DOMAIN calls[r] /\ calls[r][i].st # "running"

\* C11: a tool call that exceeds its timeout ends as the failure "timeout",
\* recorded as the call's result, and the run goes on.
C11_TimeoutBecomesObservation ==
    \A r \in Slots : \A i \in DOMAIN calls[r] :
        (calls[r][i].call.tool = "install_uv_package" /\ calls[r][i].call.arg = "slow"
           /\ Finished(r, i)) =>
            /\ calls[r][i].st = "done"
            /\ calls[r][i].result.text = "timeout"
            /\ phase[r] = "Invoking"

\* C12: after the first unparsable output and three retries the
\* run is over, terminated as fatal (answered 500).
C12_FatalAfterRetries ==
    \A r \in Slots :
        parse_steps[r] > 3 => (phase[r] = "Responded" /\ response[r].status = 500)

\* C13: a run stopped by the iteration cap answers normally, 200 with the
\* executor's stopped message; the cap never shows as a 500.
C13_CapAnsweredNormally ==
    \A r \in Slots :
        /\ iterations[r] <= max_iterations
        /\ (phase[r] = "Responded" /\ iterations[r] >= max_iterations) =>
               response[r] = PlainTextResponse(StoppedOutput)

\* C13 witness: a run that used up its iterations has answered.
C13_Witness ==
    \E r \in Slots :
        /\ phase[r] = "Responded"
        /\ iterations[r] = max_iterations
        /\ steps[r] > 0
        /\ response[r].status = 200

\* C14: the memory only grows at its end: the messages stored before a step
\* are a prefix of those stored after it, and within a run the recorded
\* observations are never taken back.
C14_AppendOnly ==
    [][/\ IsPrefix(memory, memory')
       /\ \A r \in Slots :
            (Running(r) /\ phase'[r] \in {"Deciding", "Invoking"}) =>
                (steps'[r] >= steps[r] /\ parse_steps'[r] >= parse_steps[r])]_vars

\* C14 witness: an earlier run has saved its turns and a later one has
\* recorded observations.
C14_Witness ==
    \E r \in Slots : Len(memory) >= 2 /\ Running(r) /\ steps[r] > 0

\* C15 as stated: a call of an unregistered name ends as the failure
\* "unknown capability".
C15_UnknownCapabilityError ==
    \A r \in Slots : \A i \in DOMAIN calls[r] :
        (calls[r][i].call.tool \notin tools /\ Finished(r, i)) =>
            (calls[r][i].st = "done" /\ calls[r][i].result.text = "unknown capability")

\* C15 as amended: a call of an unregistered name never raises; it returns
\* the message that the name is not a valid tool, which carries no file's
\* content, and the run stays in its loop.
C15_InvalidToolObservation ==
    \A r \in Slots : \A i \in DOMAIN calls[r] :
        (calls[r][i].call.tool \notin tools /\ Finished(r, i)) =>
            /\ calls[r][i].st = "done"
            /\ calls[r][i].result =
                  [kind |-> "return", text |-> "is not a valid tool", src |-> NoPath]
            /\ (\A j \in DOMAIN calls[r] : calls[r][j].st # "raised") =>
                   (phase[r] = "Invoking" /\ response[r] = NoResponse)

\* C15 witness: the call of file_delete has returned.
C15_Witness ==
    \E r \in Slots : \E i \in DOMAIN calls[r] :
        calls[r][i].call.tool = "file_delete" /\ calls[r][i].st = "done"

\* C16: the store can be reset: from every state some operation of the
\* server leaves the memory empty.
C16_ResetEmpties ==
    memory = <<>> \/ ENABLED (SessionNext /\ memory' = <<>>)

\* C17: make_api_call returns a dict and never raises.
C17_ApiCallNeverRaises ==
    \A r \in Slots : \A i \in DOMAIN calls[r] :
        (calls[r][i].call.tool = "make_api_call" /\ Finished(r, i)) =>
            (calls[r][i].st = "done" /\ calls[r][i].result.kind = "return")

\* C18: a request answered 400 or 500 leaves the memory as it was; the
\* memory changes only when a run that ended with an output saves it, by
\* exactly the run's human input followed by that output, and such a run is
\* then answered 200 with that output.
C18_MemoryOnlyOnOutput ==
    [][/\ memory' # memory =>
            \E r \in Slots :
                /\ phase[r] = "Finished" /\ phase'[r] = "Saved"
                /\ memory' = memory \o <<[type |-> "human", content |-> task[r]],
                                         [type |-> "ai", content |-> output[r]]>>
       /\ \A r \in Slots :
            /\ phase[r] = "Finished" => phase'[r] \in {"Finished", "Saved"}
            /\ phase[r] = "Saved" => phase'[r] \in {"Saved", "Responded"}
            /\ (phase'[r] = "Saved" /\ phase[r] # "Saved") => memory' # memory
            /\ (phase'[r] = "Responded" /\ phase[r] # "Responded") =>
                  /\ memory' = memory
                  /\ response'[r].status \in {400, 500} =>
                         phase[r] \in {"Idle", "Deciding", "Invoking"}
                  /\ response'[r].status = 200 =>
                         (phase[r] = "Saved" /\ response'[r].body = output[r])]_vars

\* C18 witness: a run answered 500 after an earlier run saved its turns.
C18_Witness ==
    \E r \in Slots :
        /\ phase[r] = "Responded"
        /\ response[r].status = 500
        /\ Len(memory) = 2

====
